---- MODULE Spec2Model ----
(***************************************************************************)
(* The peer registry of server.go (type Server): the container/list of     *)
(* peers s.peers, the operations that append to it (AddPeer,               *)
(* ConnectToPeer), the operations that traverse it with eachPeer           *)
(* (Broadcast, OutboundPeers, InboundPeers, ReapDeadPeers, Stop) and the   *)
(* shutdown channel (Stop, WaitForShutdown).                               *)
(*                                                                         *)
(* The list is modelled as container/list keeps it: a ring of elements     *)
(* around a root sentinel, each element with its next, prev and list       *)
(* fields, and the list's len.  Every statement of insert and remove is an *)
(* operator from list to list.  Spec runs each operation of the server as  *)
(* one action (the statements composed); SpecConc runs every statement as  *)
(* a step of its own, since no operation of server.go takes a lock;        *)
(* SpecStop is the shutdown path.                                          *)
(***************************************************************************)
EXTENDS Integers, Sequences, FiniteSets

\* ------------------------------------------------------------ bounds
MaxPeers == 3
MaxNow == 1
MaxBroadcasts == 1
MaxStops == 2
NumWaiters == 2
MaxConcurrent == 2
MaxConcPeers == 3
MaxAccepts == 3
MaxAddrs == 2
NumAddrs == 2
\* The values a byte takes (a byte of the model has ByteBase values instead of
\* 256), the length of the longest sequence Value, the largest index asked for.
ByteBase == 2
MaxSeqLen == 2
MaxIdx == 3
\* The largest recipient and value of a transaction, the number of instructions
\* that compile, the length of the longest instruction list.
MaxTo == 1
MaxTxValue == 1
NumInstrs == 2
MaxInstrs == 1

\* ------------------------------------------------------------ constants
\* The root sentinel of the list (container/list's l.root) and the nil element.
Root == 0
Nil == -1

\* time.Now().Unix() counts seconds; one tick of the model's clock is 1000 of
\* them, and the clock readings of the model are whole ticks.
TickSeconds == 1000
\* time.Second as a time.Duration: a count of nanoseconds.
NanosPerSecond == 1000000000
\* int64(5*time.Minute) = 5*60*10^9, the number the code compares the elapsed
\* SECONDS with, in ticks (elapsed seconds > 3*10^11 iff elapsed ticks > 3*10^8).
ReapLimit == (5 * 60) * (NanosPerSecond \div TickSeconds)
\* 5 minutes, the documented liveness timeout, in ticks (elapsed seconds > 300
\* iff elapsed ticks > 0).
LivenessTimeout == (5 * 60) \div TickSeconds
\* A clock reading so late that a silence since any earlier tick exceeds ReapLimit.
FarNow == ReapLimit + MaxNow + 1

\* The bytes of a uint64.
WordBytes == 8
\* The bytes of a sha256 digest, and the leading bytes of it the address keeps.
DigestBytes == 32
AddrBytes == 19
\* NewValue(nil): a Value holding nothing.
NilValue == [kind |-> "nil"]

PeerIds == 1..MaxPeers
Elems == 0..MaxPeers
Waiters == 1..NumWaiters
\* ethwire.NewMessage(msgType, data): a message is its type and its payload.
Messages == {<<"ping", 1>>, <<"block", 2>>}

VARIABLES
    \* s.peers, the container/list: [next, prev, list, len]
    peers,
    \* the peers
    nPeers, inbound, disconnect, lastPong, started, queue, stopCount,
    \* AddPeer / ConnectToPeer in flight, one per peer being appended
    addPc, addAt,
    \* ReapDeadPeers: where the loop is, its cursor, and of the current pass the
    \* peers that were dead when it began, the peers visited and the peers removed
    rPc, rCur, deadAtStart, visited, removed,
    \* Broadcast
    bPc, bCur, bMsg, bTargets, bBase, nBroadcasts,
    \* Stop
    sPc, sCur, sTargets, sCalled, stopCalls, signalsSent, txPoolStops, dbCloses,
    \* WaitForShutdown callers
    wPc,
    \* OutboundPeers / InboundPeers
    qPc, qOut, qIn,
    \* the clock, a panic, the peers the registry holds in the order they were
    \* appended (a peer enters when PushBack returns and leaves when Remove is
    \* called on it), and the peers Remove has removed
    now, crashed, registry, reaped,
    \* the accept loop of Start: the outcomes of ln.Accept() so far and the
    \* accepted connections whose AddPeer goroutine has not run yet
    accepts, pending,
    \* ProcessPeerList: the address each outbound peer was made for, the list of
    \* the last call and the registry as that call found it
    addrOf, pplAddrs, pplBase,
    \* a Value, the accessor applied to it, the accessor's arguments and result
    val, acc, arg, res,
    \* NewTransaction: its arguments, the transaction being built, where it is
    txIn, tx, txPc

peerVars == <<nPeers, inbound, disconnect, lastPong, started, queue, stopCount>>
addVars == <<addPc, addAt>>
reapVars == <<rPc, rCur, deadAtStart, visited, removed, reaped>>
bcastVars == <<bPc, bCur, bMsg, bTargets, bBase, nBroadcasts>>
stopVars == <<sPc, sCur, sTargets, sCalled, stopCalls, signalsSent, txPoolStops, dbCloses>>
queryVars == <<qPc, qOut, qIn>>
acceptVars == <<accepts, pending>>
pplVars == <<addrOf, pplAddrs, pplBase>>
valVars == <<val, acc, arg, res>>
txVars == <<txIn, tx, txPc>>
extVars == <<acceptVars, pplVars, valVars, txVars>>
vars == <<peers, peerVars, addVars, reapVars, bcastVars, stopVars, wPc,
          queryVars, now, crashed, registry, extVars>>

\* ------------------------------------------------------------ helpers
RECURSIVE SeqToSet(_)
SeqToSet(s) == IF s = <<>> THEN {} ELSE {Head(s)} \cup SeqToSet(Tail(s))

RECURSIVE Without(_, _)
Without(s, x) ==
    IF s = <<>> THEN <<>>
    ELSE IF Head(s) = x THEN Without(Tail(s), x)
    ELSE <<Head(s)>> \o Without(Tail(s), x)

Members == SeqToSet(registry)

\* ------------------------------------------------------------ container/list
\* list.New(): the root's next and prev are the root, len is 0. The list field
\* says whether an element is in the list; the root's own is never set.
NewList ==
    [next |-> [e \in Elems |-> IF e = Root THEN Root ELSE Nil],
     prev |-> [e \in Elems |-> IF e = Root THEN Root ELSE Nil],
     list |-> [e \in Elems |-> FALSE],
     len |-> 0]

\* l.Front(): nil for a list of length 0, else the root's next.
Front(l) == IF l.len = 0 THEN Nil ELSE l.next[Root]

\* e.Next(): p := e.next; p if e.list != nil && p != &e.list.root, else nil.
ElemNext(l, e) == IF l.list[e] /\ l.next[e] # Root THEN l.next[e] ELSE Nil

\* The statements of insert(e, at), in their order.
InsertSetPrev(l, e, at) == [l EXCEPT !.prev[e] = at]
InsertSetNext(l, e, at) == [l EXCEPT !.next[e] = l.next[at]]
InsertLinkPrev(l, e) == [l EXCEPT !.next[l.prev[e]] = e]
InsertLinkNext(l, e) == [l EXCEPT !.prev[l.next[e]] = e]
InsertSetList(l, e) == [l EXCEPT !.list[e] = TRUE]
InsertLen(l) == [l EXCEPT !.len = @ + 1]

\* l.PushBack(v): insert(e, l.root.prev).
PushBackFront(l, e) ==
    LET at == Root IN
    InsertLen(InsertSetList(InsertLinkNext(InsertLinkPrev(
        InsertSetNext(InsertSetPrev(l, e, at), e, at), e), e), e))
PushBack(l, e) ==
    LET at == l.prev[Root] IN
    InsertLen(InsertSetList(InsertLinkNext(InsertLinkPrev(
        InsertSetNext(InsertSetPrev(l, e, at), e, at), e), e), e))

\* The statements of remove(e), in their order.
RemoveUnlinkPrev(l, e) == [l EXCEPT !.next[l.prev[e]] = l.next[e]]
RemoveUnlinkNext(l, e) == [l EXCEPT !.prev[l.next[e]] = l.prev[e]]
RemoveClearNext(l, e) == [l EXCEPT !.next[e] = Nil]
RemoveClearPrev(l, e) == [l EXCEPT !.prev[e] = Nil]
RemoveClearList(l, e) == [l EXCEPT !.list[e] = FALSE]
RemoveLen(l) == [l EXCEPT !.len = @ - 1]

\* l.Remove(e): remove(e) if e.list == l.
Remove(l, e) ==
    IF l.list[e]
    THEN RemoveLen(RemoveClearList(RemoveClearPrev(RemoveClearNext(
             RemoveUnlinkNext(RemoveUnlinkPrev(l, e), e), e), e), e))
    ELSE l

\* The elements the loop of eachPeer meets when its callback leaves the list
\* alone: for e := Front(); e != nil; e = e.Next().
RECURSIVE Walk(_, _, _)
Walk(l, e, fuel) ==
    IF e = Nil \/ e = Root \/ fuel = 0 THEN <<>>
    ELSE <<e>> \o Walk(l, ElemNext(l, e), fuel - 1)

eachPeer(l) == Walk(l, Front(l), MaxPeers + 1)

\* ------------------------------------------------------------ Init
ServerInit ==
    /\ peers = NewList
    /\ nPeers = 0
    /\ inbound = [p \in PeerIds |-> FALSE]
    /\ disconnect = [p \in PeerIds |-> 0]
    /\ lastPong = [p \in PeerIds |-> 0]
    /\ started = [p \in PeerIds |-> FALSE]
    /\ queue = [p \in PeerIds |-> <<>>]
    /\ stopCount = [p \in PeerIds |-> 0]
    /\ addPc = [p \in PeerIds |-> "none"]
    /\ addAt = [p \in PeerIds |-> Nil]
    /\ rPc = "sleep"
    /\ rCur = Nil
    /\ deadAtStart = {}
    /\ visited = <<>>
    /\ removed = {}
    /\ reaped = {}
    /\ bPc = "idle"
    /\ bCur = Nil
    /\ bMsg = <<>>
    /\ bTargets = {}
    /\ bBase = [p \in PeerIds |-> <<>>]
    /\ nBroadcasts = 0
    /\ sPc = "idle"
    /\ sCur = Nil
    /\ sTargets = {}
    /\ sCalled = [p \in PeerIds |-> 0]
    /\ stopCalls = 0
    /\ signalsSent = 0
    /\ txPoolStops = 0
    /\ dbCloses = 0
    /\ wPc = [w \in Waiters |-> "idle"]
    /\ qPc = "idle"
    /\ qOut = <<>>
    /\ qIn = <<>>
    /\ now = 0
    /\ crashed = FALSE
    /\ registry = <<>>
    /\ accepts = <<>>
    /\ pending = 0
    /\ addrOf = [p \in PeerIds |-> 0]
    /\ pplAddrs = <<>>
    /\ pplBase = <<>>

\* No Value is under an accessor.
ValueIdle ==
    /\ val = NilValue
    /\ acc = "none"
    /\ arg = <<>>
    /\ res = NilValue

\* No transaction is being built.
TxIdle ==
    /\ txIn = <<>>
    /\ tx = <<>>
    /\ txPc = "none"

\* The server as NewServer returns it.
Init == ServerInit /\ ValueIdle /\ TxIdle

\* ------------------------------------------------------------ scheduling
\* A PushBack that has read the back of the list and not yet returned.
Adding(p) == addPc[p] \in {"next", "linkPrev", "linkNext", "list", "len"}

\* The reaper inside l.Remove.
Removing == rPc \in {"unlinkPrev", "unlinkNext", "clearNext", "clearPrev", "clearList", "len"}

\* The number of goroutines inside an operation on s.peers.
ListBusy ==
    Cardinality({p \in PeerIds : Adding(p)})
    + (IF rPc # "sleep" THEN 1 ELSE 0)
    + (IF bPc # "idle" THEN 1 ELSE 0)
    + (IF sPc \in {"visit", "advance"} THEN 1 ELSE 0)
    + (IF qPc # "idle" THEN 1 ELSE 0)

\* An operation on s.peers may begin: lim = 1 runs the operations one after the
\* other, a larger lim lets that many goroutines be inside the list at once, as
\* the code (which takes no lock) allows.
MayBegin(lim) == ~crashed /\ ListBusy < lim

\* The peers' own activity and the clock: between operations when lim = 1, at
\* any time otherwise.
EnvMayAct(lim) == ~crashed /\ (lim > 1 \/ ListBusy = 0)

\* A nil dereference or an index out of range panics: the process is gone.
Crash ==
    /\ crashed' = TRUE
    /\ UNCHANGED <<extVars, peers, peerVars, addVars, reapVars, bcastVars, stopVars, wPc,
                   queryVars, now, registry>>


\* ------------------------------------------------------------ the peers
\* The test of ReapDeadPeers' callback:
\* atomic.LoadInt32(&p.disconnect) == 1 ||
\*   (p.inbound && (time.Now().Unix()-p.lastPong) > int64(5*time.Minute))
DeadPeerIgnoresRole(p) ==
    \/ disconnect[p] = 1
    \/ (now - lastPong[p]) > ReapLimit
DeadPeer(p) ==
    \/ disconnect[p] = 1
    \/ (inbound[p] /\ (now - lastPong[p]) > ReapLimit)

\* The documented predicate: the disconnect flag, or inbound and silent for
\* more than 5 minutes.
DocDead(p) ==
    \/ disconnect[p] = 1
    \/ (inbound[p] /\ (now - lastPong[p]) > LivenessTimeout)

\* A received message (a pong) updates the peer's last-liveness timestamp.
PeerPong(lim, p) ==
    /\ EnvMayAct(lim)
    /\ p <= nPeers
    /\ disconnect[p] = 0
    /\ lastPong[p] # now
    /\ lastPong' = [lastPong EXCEPT ![p] = now]
    /\ UNCHANGED <<extVars, peers, nPeers, inbound, disconnect, started, queue, stopCount,
                   addVars, reapVars, bcastVars, stopVars, wPc, queryVars, now,
                   crashed, registry>>

\* The peer sets its own disconnect flag on an I/O error.
PeerDisconnect(lim, p) ==
    /\ EnvMayAct(lim)
    /\ p <= nPeers
    /\ disconnect[p] = 0
    /\ disconnect' = [disconnect EXCEPT ![p] = 1]
    /\ UNCHANGED <<extVars, peers, nPeers, inbound, lastPong, started, queue, stopCount,
                   addVars, reapVars, bcastVars, stopVars, wPc, queryVars, now,
                   crashed, registry>>

\* time.Now().Unix() moves on: by a tick, or to a reading far in the future.
Tick(lim) ==
    /\ EnvMayAct(lim)
    /\ now <= MaxNow
    /\ \/ now < MaxNow /\ now' = now + 1
       \/ now' = FarNow
    /\ UNCHANGED <<extVars, peers, peerVars, addVars, reapVars, bcastVars, stopVars, wPc,
                   queryVars, crashed, registry>>

\* ------------------------------------------------------------ AddPeer, ConnectToPeer
\* NewPeer(conn, s, inbound) / NewOutboundPeer(addr, s): a peer of the given
\* role, its disconnect flag clear, its liveness timestamp the time of creation.
NewPeer(p, role) ==
    /\ nPeers' = p
    /\ inbound' = [inbound EXCEPT ![p] = role]
    /\ lastPong' = [lastPong EXCEPT ![p] = now]

\* AddPeer(conn) as a whole:
\* peer := NewPeer(conn, s, true); s.peers.PushBack(peer); peer.Start()
AddPeerBody ==
    /\ MayBegin(1)
    /\ nPeers < MaxPeers
    /\ LET p == nPeers + 1 IN
        /\ NewPeer(p, TRUE)
        /\ peers' = PushBack(peers, p)
        /\ registry' = Append(registry, p)
        /\ started' = [started EXCEPT ![p] = TRUE]
        /\ addPc' = [addPc EXCEPT ![p] = "done"]
    /\ UNCHANGED <<disconnect, queue, stopCount, addAt, reapVars, bcastVars, stopVars,
                   wPc, queryVars, now, crashed>>

AddPeer == AddPeerBody /\ UNCHANGED extVars

\* ConnectToPeer(addr) as a whole:
\* peer := NewOutboundPeer(addr, s); s.peers.PushBack(peer); return nil
ConnectToPeer ==
    /\ MayBegin(1)
    /\ nPeers < MaxPeers
    /\ LET p == nPeers + 1 IN
        /\ NewPeer(p, FALSE)
        /\ peers' = PushBack(peers, p)
        /\ registry' = Append(registry, p)
        /\ addPc' = [addPc EXCEPT ![p] = "done"]
    /\ UNCHANGED <<extVars, disconnect, started, queue, stopCount, addAt, reapVars, bcastVars,
                   stopVars, wPc, queryVars, now, crashed>>

\* ------------------------------------------------------------ ReapDeadPeers
\* A loop that would test the front element only.
ReapLoopFrontOnly(l, e) ==
    IF e = Nil THEN l
    ELSE IF DeadPeer(e) THEN Remove(l, e) ELSE l

\* The loop of eachPeer under the reaper's callback, from element e on: the
\* callback removes a dead peer's element, then the loop takes e.Next() of that
\* same element. The result is the list after the loop.
RECURSIVE ReapLoop(_, _)
ReapLoop(l, e) ==
    IF e = Nil THEN l
    ELSE LET l2 == IF DeadPeer(e) THEN Remove(l, e) ELSE l
         IN  ReapLoop(l2, ElemNext(l2, e))

\* The elements that loop visits, in order.
RECURSIVE ReapVisits(_, _)
ReapVisits(l, e) ==
    IF e = Nil THEN <<>>
    ELSE LET l2 == IF DeadPeer(e) THEN Remove(l, e) ELSE l
         IN  <<e>> \o ReapVisits(l2, ElemNext(l2, e))

\* One pass of ReapDeadPeers' for loop as a whole: eachPeer(s.peers, callback).
ReapDeadPeers ==
    /\ MayBegin(1)
    /\ rPc = "sleep"
    /\ LET vis == ReapVisits(peers, Front(peers))
           gone == {p \in SeqToSet(vis) : DeadPeer(p) /\ peers.list[p]}
       IN  /\ peers' = ReapLoop(peers, Front(peers))
           /\ visited' = vis
           /\ removed' = gone
           /\ reaped' = reaped \cup gone
           /\ registry' = SelectSeq(registry, LAMBDA p : p \notin gone)
    /\ deadAtStart' = {p \in Members : DeadPeer(p)}
    /\ rPc' = "passed"
    /\ rCur' = Nil
    /\ UNCHANGED <<extVars, peerVars, addVars, bcastVars, stopVars, wPc, queryVars, now, crashed>>

\* time.Sleep(processReapingTimeout * time.Second): the pass is over.
ReapSleep ==
    /\ ~crashed
    /\ rPc = "passed"
    /\ rPc' = "sleep"
    /\ deadAtStart' = {}
    /\ visited' = <<>>
    /\ removed' = {}
    /\ UNCHANGED <<extVars, peers, peerVars, addVars, rCur, reaped, bcastVars, stopVars, wPc,
                   queryVars, now, crashed, registry>>

\* ------------------------------------------------------------ OutboundPeers, InboundPeers
\* eachPeer with the callback that keeps the peers with !p.inbound.
OutboundPeersKeepsLive == SelectSeq(eachPeer(peers), LAMBDA p : ~inbound[p] /\ disconnect[p] = 0)
OutboundPeers == SelectSeq(eachPeer(peers), LAMBDA p : ~inbound[p])

\* eachPeer with the callback that keeps the peers with p.inbound.
InboundPeers == SelectSeq(eachPeer(peers), LAMBDA p : inbound[p])

\* A caller asks for both: each call makes a slice of s.peers.Len() entries and
\* fills it by index, which panics if the loop meets more peers than that.
Query(lim) ==
    /\ MayBegin(lim)
    /\ qPc = "idle"
    /\ IF Len(OutboundPeers) > peers.len \/ Len(InboundPeers) > peers.len
       THEN Crash
       ELSE /\ qOut' = OutboundPeers
            /\ qIn' = InboundPeers
            /\ qPc' = "done"
            /\ UNCHANGED <<extVars, peers, peerVars, addVars, reapVars, bcastVars, stopVars,
                           wPc, now, crashed, registry>>

\* The caller is done with the two slices.
QueryReturn ==
    /\ ~crashed
    /\ qPc = "done"
    /\ qPc' = "idle"
    /\ qOut' = <<>>
    /\ qIn' = <<>>
    /\ UNCHANGED <<extVars, peers, peerVars, addVars, reapVars, bcastVars, stopVars, wPc,
                   now, crashed, registry>>

\* ------------------------------------------------------------ Spec
\* The operations on s.peers one after the other, each as a whole.
Next ==
    \/ AddPeer
    \/ ConnectToPeer
    \/ \E p \in PeerIds : PeerPong(1, p)
    \/ \E p \in PeerIds : PeerDisconnect(1, p)
    \/ Tick(1)
    \/ ReapDeadPeers
    \/ ReapSleep
    \/ Query(1)
    \/ QueryReturn

Spec == Init /\ [][Next]_vars


\* ------------------------------------------------------------ statement by statement
\* AddPeer up to the call s.peers.PushBack(peer): the peer is made, the
\* argument l.root.prev is read, and insert's e.prev = at runs.
\* (ConnectToPeer's PushBack runs the same statements. The accept loop starts
\* a goroutine per connection, so several AddPeer can overlap as well; here one
\* runs at a time, against the reaper, Broadcast and Stop.)
AddPeerCall(lim) ==
    /\ MayBegin(lim)
    /\ nPeers < MaxConcPeers
    /\ \A q \in PeerIds : ~Adding(q)
    /\ LET p == nPeers + 1 IN
        /\ NewPeer(p, TRUE)
        /\ addAt' = [addAt EXCEPT ![p] = peers.prev[Root]]
        /\ peers' = InsertSetPrev(peers, p, peers.prev[Root])
        /\ addPc' = [addPc EXCEPT ![p] = "next"]
    /\ UNCHANGED <<extVars, disconnect, started, queue, stopCount, reapVars, bcastVars,
                   stopVars, wPc, queryVars, now, crashed, registry>>

\* insert: e.next = at.next
PushBackSetNext(p) ==
    /\ ~crashed
    /\ addPc[p] = "next"
    /\ peers' = InsertSetNext(peers, p, addAt[p])
    /\ addPc' = [addPc EXCEPT ![p] = "linkPrev"]
    /\ UNCHANGED <<extVars, peerVars, addAt, reapVars, bcastVars, stopVars, wPc, queryVars,
                   now, crashed, registry>>

\* insert: e.prev.next = e
PushBackLinkPrev(p) ==
    /\ ~crashed
    /\ addPc[p] = "linkPrev"
    /\ IF peers.prev[p] = Nil
       THEN Crash
       ELSE /\ peers' = InsertLinkPrev(peers, p)
            /\ addPc' = [addPc EXCEPT ![p] = "linkNext"]
            /\ UNCHANGED <<extVars, peerVars, addAt, reapVars, bcastVars, stopVars, wPc,
                           queryVars, now, crashed, registry>>

\* insert: e.next.prev = e
PushBackLinkNext(p) ==
    /\ ~crashed
    /\ addPc[p] = "linkNext"
    /\ IF peers.next[p] = Nil
       THEN Crash
       ELSE /\ peers' = InsertLinkNext(peers, p)
            /\ addPc' = [addPc EXCEPT ![p] = "list"]
            /\ UNCHANGED <<extVars, peerVars, addAt, reapVars, bcastVars, stopVars, wPc,
                           queryVars, now, crashed, registry>>

\* insert: e.list = l
PushBackSetList(p) ==
    /\ ~crashed
    /\ addPc[p] = "list"
    /\ peers' = InsertSetList(peers, p)
    /\ addPc' = [addPc EXCEPT ![p] = "len"]
    /\ UNCHANGED <<extVars, peerVars, addAt, reapVars, bcastVars, stopVars, wPc, queryVars,
                   now, crashed, registry>>

\* insert: l.len++, and PushBack returns; AddPeer's peer.Start() follows, which
\* touches the peer alone.
PushBackLen(p) ==
    /\ ~crashed
    /\ addPc[p] = "len"
    /\ peers' = InsertLen(peers)
    /\ registry' = Append(registry, p)
    /\ started' = [started EXCEPT ![p] = TRUE]
    /\ addPc' = [addPc EXCEPT ![p] = "done"]
    /\ UNCHANGED <<extVars, nPeers, inbound, disconnect, lastPong, queue, stopCount, addAt,
                   reapVars, bcastVars, stopVars, wPc, queryVars, now, crashed>>

\* Where a loop of eachPeer goes with its next element e: on to the callback,
\* or out, when e is nil. Front() of a list whose len and links disagree can
\* be the root itself: it holds no *Peer and is in no list, so the loop calls
\* nothing on it, gets nil from its Next() and leaves.
LoopPc(e, out) == IF e = Nil \/ e = Root THEN out ELSE "visit"

\* ReapDeadPeers, the head of a pass's loop: e := peers.Front().
ReapBegin(lim) ==
    /\ MayBegin(lim)
    /\ rPc = "sleep"
    /\ rCur' = Front(peers)
    /\ rPc' = LoopPc(Front(peers), "passed")
    /\ deadAtStart' = {p \in Members : DeadPeer(p)}
    /\ visited' = <<>>
    /\ removed' = {}
    /\ UNCHANGED <<extVars, peers, peerVars, addVars, reaped, bcastVars, stopVars, wPc,
                   queryVars, now, crashed, registry>>

\* The callback on the element at the cursor: the dead-peer test, and for a dead
\* peer the call s.peers.Remove(e) with its test e.list == l. From here on the
\* peer no longer counts as held by the registry.
ReapVisit ==
    /\ ~crashed
    /\ rPc = "visit"
    /\ visited' = Append(visited, rCur)
    /\ IF DeadPeer(rCur) /\ peers.list[rCur]
       THEN /\ rPc' = "unlinkPrev"
            /\ registry' = Without(registry, rCur)
       ELSE /\ rPc' = "advance"
            /\ registry' = registry
    /\ UNCHANGED <<extVars, peers, peerVars, addVars, rCur, deadAtStart, removed, reaped,
                   bcastVars, stopVars, wPc, queryVars, now, crashed>>

\* remove: e.prev.next = e.next
ReapUnlinkPrev ==
    /\ ~crashed
    /\ rPc = "unlinkPrev"
    /\ IF peers.prev[rCur] = Nil
       THEN Crash
       ELSE /\ peers' = RemoveUnlinkPrev(peers, rCur)
            /\ rPc' = "unlinkNext"
            /\ UNCHANGED <<extVars, peerVars, addVars, rCur, deadAtStart, visited, removed,
                           reaped, bcastVars, stopVars, wPc, queryVars, now, crashed,
                           registry>>

\* remove: e.next.prev = e.prev
ReapUnlinkNext ==
    /\ ~crashed
    /\ rPc = "unlinkNext"
    /\ IF peers.next[rCur] = Nil
       THEN Crash
       ELSE /\ peers' = RemoveUnlinkNext(peers, rCur)
            /\ rPc' = "clearNext"
            /\ UNCHANGED <<extVars, peerVars, addVars, rCur, deadAtStart, visited, removed,
                           reaped, bcastVars, stopVars, wPc, queryVars, now, crashed,
                           registry>>

\* remove: e.next = nil
ReapClearNext ==
    /\ ~crashed
    /\ rPc = "clearNext"
    /\ peers' = RemoveClearNext(peers, rCur)
    /\ rPc' = "clearPrev"
    /\ UNCHANGED <<extVars, peerVars, addVars, rCur, deadAtStart, visited, removed, reaped,
                   bcastVars, stopVars, wPc, queryVars, now, crashed, registry>>

\* remove: e.prev = nil
ReapClearPrev ==
    /\ ~crashed
    /\ rPc = "clearPrev"
    /\ peers' = RemoveClearPrev(peers, rCur)
    /\ rPc' = "clearList"
    /\ UNCHANGED <<extVars, peerVars, addVars, rCur, deadAtStart, visited, removed, reaped,
                   bcastVars, stopVars, wPc, queryVars, now, crashed, registry>>

\* remove: e.list = nil
ReapClearList ==
    /\ ~crashed
    /\ rPc = "clearList"
    /\ peers' = RemoveClearList(peers, rCur)
    /\ rPc' = "len"
    /\ UNCHANGED <<extVars, peerVars, addVars, rCur, deadAtStart, visited, removed, reaped,
                   bcastVars, stopVars, wPc, queryVars, now, crashed, registry>>

\* remove: l.len--, and Remove returns to the callback.
ReapLen ==
    /\ ~crashed
    /\ rPc = "len"
    /\ peers' = RemoveLen(peers)
    /\ removed' = removed \cup {rCur}
    /\ reaped' = reaped \cup {rCur}
    /\ rPc' = "advance"
    /\ UNCHANGED <<extVars, peerVars, addVars, rCur, deadAtStart, visited, bcastVars, stopVars,
                   wPc, queryVars, now, crashed, registry>>

\* The loop's e = e.Next(), on the element the callback has just been called
\* with (and may have removed).
ReapAdvance ==
    /\ ~crashed
    /\ rPc = "advance"
    /\ rCur' = ElemNext(peers, rCur)
    /\ rPc' = LoopPc(ElemNext(peers, rCur), "passed")
    /\ UNCHANGED <<extVars, peers, peerVars, addVars, deadAtStart, visited, removed, reaped,
                   bcastVars, stopVars, wPc, queryVars, now, crashed, registry>>

\* ------------------------------------------------------------ Broadcast
\* Peer.QueueMessage: the message goes to the back of the peer's send queue.
QueueMessage(p, m) == [queue EXCEPT ![p] = Append(queue[p], m)]

\* Broadcast(msgType, data), the head of its loop: e := peers.Front().
Broadcast(lim, m) ==
    /\ MayBegin(lim)
    /\ bPc = "idle"
    /\ nBroadcasts < MaxBroadcasts
    /\ nBroadcasts' = nBroadcasts + 1
    /\ bMsg' = m
    /\ bTargets' = Members
    /\ bBase' = queue
    /\ bCur' = Front(peers)
    /\ bPc' = LoopPc(Front(peers), "done")
    /\ UNCHANGED <<extVars, peers, peerVars, addVars, reapVars, stopVars, wPc, queryVars,
                   now, crashed, registry>>

\* The callback p.QueueMessage(ethwire.NewMessage(msgType, data)).
BroadcastVisit ==
    /\ ~crashed
    /\ bPc = "visit"
    /\ queue' = QueueMessage(bCur, bMsg)
    /\ bPc' = "advance"
    /\ UNCHANGED <<extVars, peers, nPeers, inbound, disconnect, lastPong, started, stopCount,
                   addVars, reapVars, bCur, bMsg, bTargets, bBase, nBroadcasts,
                   stopVars, wPc, queryVars, now, crashed, registry>>

\* The loop's e = e.Next().
BroadcastAdvance ==
    /\ ~crashed
    /\ bPc = "advance"
    /\ bCur' = ElemNext(peers, bCur)
    /\ bPc' = LoopPc(ElemNext(peers, bCur), "done")
    /\ UNCHANGED <<extVars, peers, peerVars, addVars, reapVars, bMsg, bTargets, bBase,
                   nBroadcasts, stopVars, wPc, queryVars, now, crashed, registry>>

\* Broadcast returns.
BroadcastReturn ==
    /\ ~crashed
    /\ bPc = "done"
    /\ bPc' = "idle"
    /\ UNCHANGED <<extVars, peers, peerVars, addVars, reapVars, bCur, bMsg, bTargets, bBase,
                   nBroadcasts, stopVars, wPc, queryVars, now, crashed, registry>>

\* ------------------------------------------------------------ Stop, WaitForShutdown
\* Stop(): defer s.db.Close(), then the head of its loop: e := peers.Front().
Stop(lim) ==
    /\ MayBegin(lim)
    /\ sPc = "idle"
    /\ stopCalls < MaxStops
    /\ stopCalls' = stopCalls + 1
    /\ sTargets' = Members
    /\ sCalled' = [p \in PeerIds |-> 0]
    /\ sCur' = Front(peers)
    /\ sPc' = LoopPc(Front(peers), "send")
    /\ UNCHANGED <<extVars, peers, peerVars, addVars, reapVars, bcastVars, signalsSent,
                   txPoolStops, dbCloses, wPc, queryVars, now, crashed, registry>>

\* The callback p.Stop(), which sets the peer's disconnect flag and closes its
\* connection.
StopVisit ==
    /\ ~crashed
    /\ sPc = "visit"
    /\ disconnect' = [disconnect EXCEPT ![sCur] = 1]
    /\ stopCount' = [stopCount EXCEPT ![sCur] = @ + 1]
    /\ sCalled' = [sCalled EXCEPT ![sCur] = @ + 1]
    /\ sPc' = "advance"
    /\ UNCHANGED <<extVars, peers, nPeers, inbound, lastPong, started, queue, addVars,
                   reapVars, bcastVars, sCur, sTargets, stopCalls, signalsSent,
                   txPoolStops, dbCloses, wPc, queryVars, now, crashed, registry>>

\* The loop's e = e.Next().
StopAdvance ==
    /\ ~crashed
    /\ sPc = "advance"
    /\ sCur' = ElemNext(peers, sCur)
    /\ sPc' = LoopPc(ElemNext(peers, sCur), "send")
    /\ UNCHANGED <<extVars, peers, peerVars, addVars, reapVars, bcastVars, sTargets, sCalled,
                   stopCalls, signalsSent, txPoolStops, dbCloses, wPc, queryVars, now,
                   crashed, registry>>

\* WaitForShutdown(): the caller arrives at <-s.shutdownChan.
WaitForShutdown(w) ==
    /\ ~crashed
    /\ wPc[w] = "idle"
    /\ wPc' = [wPc EXCEPT ![w] = "recv"]
    /\ UNCHANGED <<extVars, peers, peerVars, addVars, reapVars, bcastVars, stopVars,
                   queryVars, now, crashed, registry>>

\* The receivers a send on the channel releases: shutdownChan is made
\* unbuffered, so s.shutdownChan <- true hands its value to the one receiver w.
ReleasedAll(w) == {v \in Waiters : wPc[v] = "recv"}
Released(w) == {w}

\* A send that would not wait for a receiver, as on a buffered channel.
StopSendNoWait(w) ==
    /\ ~crashed
    /\ sPc = "send"
    /\ signalsSent' = signalsSent + 1
    /\ sPc' = "txstop"
    /\ UNCHANGED <<extVars, peers, peerVars, addVars, reapVars, bcastVars, sCur, sTargets,
                   sCalled, stopCalls, txPoolStops, dbCloses, wPc, queryVars, now, crashed,
                   registry>>

\* s.shutdownChan <- true meets <-s.shutdownChan of waiter w: both go on.
StopSend(w) ==
    /\ ~crashed
    /\ sPc = "send"
    /\ wPc[w] = "recv"
    /\ wPc' = [v \in Waiters |-> IF v \in Released(w) THEN "resumed" ELSE wPc[v]]
    /\ signalsSent' = signalsSent + 1
    /\ sPc' = "txstop"
    /\ UNCHANGED <<extVars, peers, peerVars, addVars, reapVars, bcastVars, sCur, sTargets,
                   sCalled, stopCalls, txPoolStops, dbCloses, queryVars, now, crashed,
                   registry>>

\* s.txPool.Stop()
StopTxPool ==
    /\ ~crashed
    /\ sPc = "txstop"
    /\ txPoolStops' = txPoolStops + 1
    /\ sPc' = "dbclose"
    /\ UNCHANGED <<extVars, peers, peerVars, addVars, reapVars, bcastVars, sCur, sTargets,
                   sCalled, stopCalls, signalsSent, dbCloses, wPc, queryVars, now,
                   crashed, registry>>

\* Stop returns: the deferred s.db.Close() runs.
StopDbClose ==
    /\ ~crashed
    /\ sPc = "dbclose"
    /\ dbCloses' = dbCloses + 1
    /\ sPc' = "idle"
    /\ UNCHANGED <<extVars, peers, peerVars, addVars, reapVars, bcastVars, sCur, sTargets,
                   sCalled, stopCalls, signalsSent, txPoolStops, wPc, queryVars, now,
                   crashed, registry>>

\* ------------------------------------------------------------ SpecConc
\* The goroutines of the server running at once, statement by statement: the
\* AddPeer goroutines of the accept loop, the reaper, a Broadcast and Stop's
\* loop over the peers; up to MaxConcurrent of them are
\* inside s.peers at a time.
NextConc ==
    \/ AddPeerCall(MaxConcurrent)
    \/ \E p \in PeerIds : PushBackSetNext(p)
    \/ \E p \in PeerIds : PushBackLinkPrev(p)
    \/ \E p \in PeerIds : PushBackLinkNext(p)
    \/ \E p \in PeerIds : PushBackSetList(p)
    \/ \E p \in PeerIds : PushBackLen(p)
    \/ \E p \in PeerIds : PeerDisconnect(MaxConcurrent, p)
    \/ ReapBegin(MaxConcurrent)
    \/ ReapVisit
    \/ ReapUnlinkPrev
    \/ ReapUnlinkNext
    \/ ReapClearNext
    \/ ReapClearPrev
    \/ ReapClearList
    \/ ReapLen
    \/ ReapAdvance
    \/ ReapSleep
    \/ \E m \in Messages : Broadcast(MaxConcurrent, m)
    \/ BroadcastVisit
    \/ BroadcastAdvance
    \/ BroadcastReturn
    \/ Stop(MaxConcurrent)
    \/ StopVisit
    \/ StopAdvance

SpecConc == Init /\ [][NextConc]_vars

\* ------------------------------------------------------------ SpecStop
\* The shutdown path: peers are accepted and may drop, Stop runs its
\* statements, callers wait in WaitForShutdown. A sender and a receiver that
\* are both at the channel are matched by the runtime.
NextStop ==
    \/ AddPeer
    \/ \E p \in PeerIds : PeerDisconnect(1, p)
    \/ Stop(1)
    \/ StopVisit
    \/ StopAdvance
    \/ \E w \in Waiters : WaitForShutdown(w)
    \/ \E w \in Waiters : StopSend(w)
    \/ StopTxPool
    \/ StopDbClose

SpecStop == Init /\ [][NextStop]_vars /\ WF_vars(\E w \in Waiters : StopSend(w))

\* ------------------------------------------------------------ claims under Spec
\* ------------------------------------------------------------ SpecReap
\* The reaper loop with nothing running beside a pass: peers are added and drop
\* between the passes. The loop's goroutine is scheduled again and again, and
\* its sleep ends.
NextReap ==
    \/ AddPeer
    \/ ConnectToPeer
    \/ \E p \in PeerIds : PeerDisconnect(1, p)
    \/ ReapDeadPeers
    \/ ReapSleep

SpecReap == Init /\ [][NextReap]_vars /\ WF_vars(ReapDeadPeers) /\ WF_vars(ReapSleep)

\* ------------------------------------------------------------ Value
\* A Value is what its Val holds: [kind |-> "nil"], a byte string
\* [kind |-> "bytes", b |-> ...], a sequence [kind |-> "list", l |-> ...] of
\* such contents, an integer [kind |-> "uint8" .. "uint64", "int", "uint",
\* n |-> ...], a *big.Int [kind |-> "bigint", n |-> ...] or a string
\* [kind |-> "string", s |-> ...].
RECURSIVE Pow(_, _)
Pow(b, e) == IF e = 0 THEN 1 ELSE b * Pow(b, e - 1)

\* The number of values of an unsigned integer of the given number of bytes.
Word(bytes) == Pow(ByteBase, bytes)

\* A panic of the accessor.
Panic == [kind |-> "panic"]

NewValue(x) == x

\* The big-endian integer a byte string spells.
RECURSIVE BigEndian(_)
BigEndian(b) ==
    IF b = <<>> THEN 0
    ELSE BigEndian(SubSeq(b, 1, Len(b) - 1)) * ByteBase + b[Len(b)]

\* ReadVarint(bytes.NewReader(b)): the byte string as a big-endian integer of
\* variable length, in a uint64.
ReadVarintFirstByte(b) == IF b = <<>> THEN 0 ELSE b[1]
ReadVarint(b) == BigEndian(b) % Word(WordBytes)

\* val.Uint()
UintWithoutBytes(v) ==
    IF v.kind \in {"uint8", "uint16", "uint32", "uint64", "uint"} THEN v.n
    ELSE IF v.kind = "int" THEN v.n % Word(WordBytes)
    ELSE 0
Uint(v) ==
    IF v.kind \in {"uint8", "uint16", "uint32", "uint64"} THEN v.n
    ELSE IF v.kind = "int" THEN v.n % Word(WordBytes)
    ELSE IF v.kind = "uint" THEN v.n
    ELSE IF v.kind = "bytes" THEN ReadVarint(v.b)
    ELSE 0

\* val.Byte(): byte is uint8.
Byte(v) == IF v.kind = "uint8" THEN v.n ELSE 0

\* int64(x) of a uint64 x.
Int64(x) == IF x >= Word(WordBytes) \div 2 THEN x - Word(WordBytes) ELSE x

\* val.BigInt()
BigInt(v) ==
    IF v.kind = "bytes" THEN BigEndian(v.b)
    ELSE IF v.kind = "bigint" THEN v.n
    ELSE Int64(Uint(v))

\* val.Str(): the characters of the string.
Str(v) ==
    IF v.kind = "bytes" THEN v.b
    ELSE IF v.kind = "string" THEN v.s
    ELSE <<>>

\* val.Bytes()
Bytes(v) == IF v.kind = "bytes" THEN v.b ELSE <<>>

\* val.Slice()
Slice(v) == IF v.kind = "list" THEN v.l ELSE <<>>

\* val.SliceFrom(from): NewValue(slice[from:]), which panics out of range.
SliceFrom(v, from) ==
    LET slice == Slice(v) IN
    IF from < 0 \/ from > Len(slice) THEN Panic
    ELSE NewValue([kind |-> "list", l |-> SubSeq(slice, from + 1, Len(slice))])

\* val.SliceTo(to): NewValue(slice[:to]), the slice's capacity its length.
SliceTo(v, to) ==
    LET slice == Slice(v) IN
    IF to < 0 \/ to > Len(slice) THEN Panic
    ELSE NewValue([kind |-> "list", l |-> SubSeq(slice, 1, to)])

\* val.SliceFromTo(from, to): NewValue(slice[from:to])
SliceFromTo(v, from, to) ==
    LET slice == Slice(v) IN
    IF from < 0 \/ to > Len(slice) \/ from > to THEN Panic
    ELSE NewValue([kind |-> "list", l |-> SubSeq(slice, from + 1, to)])

\* val.Len()
ValueLen(v) ==
    IF v.kind = "list" THEN Len(v.l)
    ELSE IF v.kind = "bytes" THEN Len(v.b)
    ELSE 0

\* val.Type(): reflect.TypeOf(val.Val).Kind(); reflect.TypeOf(nil) is the nil
\* Type, and Kind() on it is a nil dereference.
ValueType(v) == IF v.kind = "nil" THEN Panic ELSE [kind |-> "kind", k |-> v.kind]

\* val.IsNil()
IsNil(v) == v.kind = "nil"

\* val.Get(idx)
GetUnguarded(v, idx) ==
    IF v.kind = "list"
    THEN IF Len(v.l) <= idx \/ idx < 0 THEN NewValue(NilValue)
         ELSE NewValue(v.l[idx + 1])
    ELSE NewValue(NilValue)
Get(v, idx) ==
    IF v.kind = "list"
    THEN IF Len(v.l) <= idx THEN NewValue(NilValue)
         ELSE IF idx < 0 THEN Panic
         ELSE NewValue(v.l[idx + 1])
    ELSE NewValue(NilValue)

\* The accessors and what each returns on v with the arguments a.
Accessors == {"Uint", "Byte", "BigInt", "Str", "Bytes", "Slice", "SliceFrom",
              "SliceTo", "SliceFromTo", "Len", "Type", "Get"}

Arity(name) ==
    IF name \in {"SliceFrom", "SliceTo", "Get"} THEN 1
    ELSE IF name = "SliceFromTo" THEN 2
    ELSE 0

Apply(name, v, a) ==
    CASE name = "Uint" -> [kind |-> "uint64", n |-> Uint(v)]
      [] name = "Byte" -> [kind |-> "uint8", n |-> Byte(v)]
      [] name = "BigInt" -> [kind |-> "bigint", n |-> BigInt(v)]
      [] name = "Str" -> [kind |-> "string", s |-> Str(v)]
      [] name = "Bytes" -> [kind |-> "bytes", b |-> Bytes(v)]
      [] name = "Slice" -> [kind |-> "list", l |-> Slice(v)]
      [] name = "SliceFrom" -> SliceFrom(v, a[1])
      [] name = "SliceTo" -> SliceTo(v, a[1])
      [] name = "SliceFromTo" -> SliceFromTo(v, a[1], a[2])
      [] name = "Len" -> [kind |-> "int", n |-> ValueLen(v)]
      [] name = "Type" -> ValueType(v)
      [] name = "Get" -> Get(v, a[1])

\* The byte strings of up to WordBytes bytes.
ByteStrings == UNION {[1..n -> 0..(ByteBase - 1)] : n \in 0..WordBytes}

\* What the children of a sequence are drawn from.
Children ==
    << NilValue,
       [kind |-> "bytes", b |-> <<1>>],
       [kind |-> "uint8", n |-> 1],
       [kind |-> "list", l |-> <<>>],
       [kind |-> "list", l |-> <<[kind |-> "bytes", b |-> <<>>]>>] >>

\* The Values the accessors are tried on.
ValueInit ==
    /\ \/ val = NilValue
       \/ \E b \in ByteStrings : val = [kind |-> "bytes", b |-> b]
       \/ \E w \in {1, 2, 4, 8} : \E n \in 0..(Word(w) - 1) :
             val = [kind |-> CASE w = 1 -> "uint8" [] w = 2 -> "uint16"
                                []  w = 4 -> "uint32" [] w = 8 -> "uint64",
                    n |-> n]
       \/ \E n \in -1..1 : val = [kind |-> "int", n |-> n]
       \/ \E n \in 0..1 : val = [kind |-> "uint", n |-> n]
       \/ \E n \in -1..1 : val = [kind |-> "bigint", n |-> n]
       \/ \E c \in UNION {[1..n -> 0..1] : n \in 0..2} : val = [kind |-> "string", s |-> c]
       \/ \E n \in 0..MaxSeqLen : \E f \in [1..n -> 1..Len(Children)] :
             val = [kind |-> "list", l |-> [i \in 1..n |-> Children[f[i]]]]
    /\ acc = "none"
    /\ arg = <<>>
    /\ res = NilValue

\* A caller applies an accessor to the Value.
Call(name, a) ==
    /\ acc = "none"
    /\ acc' = name
    /\ arg' = a
    /\ res' = Apply(name, val, a)
    /\ UNCHANGED <<peers, peerVars, addVars, reapVars, bcastVars, stopVars, wPc,
                   queryVars, now, crashed, registry, acceptVars, pplVars, val, txVars>>

\* ------------------------------------------------------------ SpecValue
\* Every accessor on every Value of ValueInit, the indices from -1 to MaxIdx.
NextValue ==
    \E name \in Accessors : \E a \in [1..Arity(name) -> -1..MaxIdx] : Call(name, a)

\* The server as NewServer returns it, and a Value to try.
InitValue == ServerInit /\ ValueInit /\ TxIdle

SpecValue == InitValue /\ [][NextValue]_vars

\* ------------------------------------------------------------ Transaction
\* A string is the sequence of its characters' codes.
Digit(d) == 48 + d

\* Uitoa(n): the decimal digits of n.
RECURSIVE Uitoa(_)
Uitoa(n) == IF n < 10 THEN <<Digit(n)>> ELSE Uitoa(n \div 10) \o <<Digit(n % 10)>>

\* The instructions a caller may write: 1..NumInstrs compile, 0 does not.
Instrs == 0..NumInstrs

\* CompileInstr(val): the instruction's op code as text; for an instruction
\* that does not compile the error is printed and the empty string is kept.
CompileInstr(i) == IF i = 0 THEN <<>> ELSE Uitoa(i + 15)

\* for i, val := range data { instr, err := CompileInstr(val); tx.data[i] = instr }
CompileAll(data) == [i \in 1..Len(data) |-> CompileInstr(data[i])]

RECURSIVE Concat(_)
Concat(ss) == IF ss = <<>> THEN <<>> ELSE Head(ss) \o Concat(Tail(ss))

\* RlpEncode of a string: a tag, the length, the characters.
EncodeString(str) == <<0, Len(str)>> \o str

\* RlpEncode of a list of strings: a tag, the length of the payload, the
\* encodings of the items one after the other.
EncodeStrings(strs) ==
    LET payload == Concat([i \in 1..Len(strs) |-> EncodeString(strs[i])])
    IN  <<1, Len(payload)>> \o payload

\* RlpEncode(preEnc) of MarshalRlp's list: five strings and the list of the
\* instructions.
RlpEncode(items, instrs) ==
    LET payload == Concat([i \in 1..Len(items) |-> EncodeString(items[i])])
                   \o EncodeStrings(instrs)
    IN  <<1, Len(payload)>> \o payload

\* tx.MarshalRlp(): "0", sender, recipient, value, fee, data, in this order.
MarshalRlpWithAddr(t) ==
    RlpEncode(<<Uitoa(0), t.sender, Uitoa(t.recipient), Uitoa(t.value), Uitoa(t.fee),
                t.addr>>, t.data)
MarshalRlp(t) ==
    RlpEncode(<<Uitoa(0), t.sender, Uitoa(t.recipient), Uitoa(t.value), Uitoa(t.fee)>>,
              t.data)

\* sha256.Sum256(b): a digest of DigestBytes bytes that every byte of b goes
\* into.
RECURSIVE Mix(_, _)
Mix(h, b) == IF b = <<>> THEN h ELSE Mix((h * 31 + Head(b) + 7) % 65521, Tail(b))

Sum256(b) ==
    LET h == Mix(Len(b), b)
    IN  [i \in 1..DigestBytes |-> ((h + i) * (2 * i + 1)) % 256]

\* hex.EncodeToString(bytes): two hexadecimal digits a byte.
HexDigit(d) == IF d < 10 THEN 48 + d ELSE 87 + d

EncodeToString(bytes) ==
    Concat([i \in 1..Len(bytes) |-> <<HexDigit(bytes[i] \div 16), HexDigit(bytes[i] % 16)>>])

\* hex.EncodeToString(hash[0:19]) of the digest of the encoding.
Address(t) == EncodeToString(SubSeq(Sum256(MarshalRlp(t)), 1, AddrBytes))

\* The sender every transaction gets: "1234567890".
Sender == [i \in 1..10 |-> Digit(i % 10)]

\* Transaction{sender: "1234567890", recipient: to, value: value}; tx.fee = 0;
\* tx.data = make([]string, len(data))
BlankTransaction(to, value, data) ==
    [sender |-> Sender, recipient |-> to, value |-> value, fee |-> 0,
     data |-> [i \in 1..Len(data) |-> <<>>], addr |-> <<>>]

\* NewTransaction(to, value, data): the fields, the compiled instructions, and
\* then the address from the encoding.
NewTransactionAddrFirst(to, value, data) ==
    LET blank == BlankTransaction(to, value, data)
        addressed == [blank EXCEPT !.addr = Address(blank)]
    IN  [addressed EXCEPT !.data = CompileAll(data)]
NewTransactionOf(to, value, data) ==
    LET blank == BlankTransaction(to, value, data)
        compiled == [blank EXCEPT !.data = CompileAll(data)]
    IN  [compiled EXCEPT !.addr = Address(compiled)]

\* The instruction lists a caller may hand over.
InstrLists == UNION {[1..n -> Instrs] : n \in 0..MaxInstrs}

\* A caller builds a transaction; two are built, to be compared.
NewTransaction(to, value, data) ==
    /\ txPc \in {"none", "one"}
    /\ txPc' = IF txPc = "none" THEN "one" ELSE "two"
    /\ txIn' = Append(txIn, [to |-> to, value |-> value, data |-> data])
    /\ tx' = Append(tx, NewTransactionOf(to, value, data))
    /\ UNCHANGED <<peers, peerVars, addVars, reapVars, bcastVars, stopVars, wPc,
                   queryVars, now, crashed, registry, acceptVars, pplVars, valVars>>

\* ------------------------------------------------------------ SpecTx
NextTx ==
    \E to \in 0..MaxTo : \E value \in 0..MaxTxValue : \E data \in InstrLists :
        NewTransaction(to, value, data)

SpecTx == Init /\ [][NextTx]_vars

\* ------------------------------------------------------------ the accept loop, ProcessPeerList
Addresses == 1..NumAddrs

\* The lists of addresses a caller may hand to ProcessPeerList.
AddrLists == UNION {[1..n -> Addresses] : n \in 0..MaxAddrs}

\* The loop of Start's goroutine is running: for { ... } has no way out.
AcceptLoopRuns == \A i \in 1..Len(accepts) : accepts[i] # "return"

\* The accept loop may go round once more.
MayAccept == ~crashed /\ AcceptLoopRuns /\ Len(accepts) < MaxAccepts

\* conn, err := ln.Accept() with err != nil: log.Println(err); continue
AcceptFailReturns ==
    /\ MayAccept
    /\ accepts' = Append(accepts, "return")
    /\ UNCHANGED <<peers, peerVars, addVars, reapVars, bcastVars, stopVars, wPc,
                   queryVars, now, crashed, registry, pending, pplVars, valVars, txVars>>
AcceptFail ==
    /\ MayAccept
    /\ accepts' = Append(accepts, "err")
    /\ UNCHANGED <<peers, peerVars, addVars, reapVars, bcastVars, stopVars, wPc,
                   queryVars, now, crashed, registry, pending, pplVars, valVars, txVars>>

\* conn, err := ln.Accept() with err == nil: go s.AddPeer(conn)
AcceptConn ==
    /\ MayAccept
    /\ nPeers + pending < MaxPeers
    /\ accepts' = Append(accepts, "conn")
    /\ pending' = pending + 1
    /\ UNCHANGED <<peers, peerVars, addVars, reapVars, bcastVars, stopVars, wPc,
                   queryVars, now, crashed, registry, pplVars, valVars, txVars>>

\* The goroutine of go s.AddPeer(conn) runs AddPeer.
AcceptedAddPeer ==
    /\ pending > 0
    /\ pending' = pending - 1
    /\ AddPeerBody
    /\ UNCHANGED <<accepts, pplVars, valVars, txVars>>

\* ConnectToPeer(addr) on the state st of the registry and its peers:
\* peer := NewOutboundPeer(addr, s); s.peers.PushBack(peer). A dial that fails
\* shows in the new peer's disconnect flag.
ConnectOne(st, a, failed) ==
    LET p == st.nPeers + 1 IN
    [peers |-> PushBack(st.peers, p),
     registry |-> Append(st.registry, p),
     nPeers |-> p,
     inbound |-> [st.inbound EXCEPT ![p] = FALSE],
     lastPong |-> [st.lastPong EXCEPT ![p] = now],
     disconnect |-> [st.disconnect EXCEPT ![p] = IF failed THEN 1 ELSE 0],
     addrOf |-> [st.addrOf EXCEPT ![p] = a]]

\* for _, addr := range addrs { s.ConnectToPeer(addr) }
RECURSIVE ConnectEachUntilFailure(_, _, _)
ConnectEachUntilFailure(st, addrs, fails) ==
    IF addrs = <<>> THEN st
    ELSE IF Head(fails) THEN ConnectOne(st, Head(addrs), TRUE)
    ELSE ConnectEachUntilFailure(ConnectOne(st, Head(addrs), FALSE), Tail(addrs), Tail(fails))
RECURSIVE ConnectEach(_, _, _)
ConnectEach(st, addrs, fails) ==
    IF addrs = <<>> THEN st
    ELSE ConnectEach(ConnectOne(st, Head(addrs), Head(fails)), Tail(addrs), Tail(fails))

\* ProcessPeerList(addrs) as a whole, the dials failing as fails says.
ProcessPeerList(addrs) ==
    /\ MayBegin(1)
    /\ nPeers + pending + Len(addrs) <= MaxPeers
    /\ \E fails \in [1..Len(addrs) -> BOOLEAN] :
         LET st == ConnectEach([peers |-> peers, registry |-> registry,
                                nPeers |-> nPeers, inbound |-> inbound,
                                lastPong |-> lastPong, disconnect |-> disconnect,
                                addrOf |-> addrOf], addrs, fails)
         IN  /\ peers' = st.peers
             /\ registry' = st.registry
             /\ nPeers' = st.nPeers
             /\ inbound' = st.inbound
             /\ lastPong' = st.lastPong
             /\ disconnect' = st.disconnect
             /\ addrOf' = st.addrOf
             /\ addPc' = [p \in PeerIds |->
                             IF p \in (nPeers + 1)..st.nPeers THEN "done" ELSE addPc[p]]
    /\ pplAddrs' = addrs
    /\ pplBase' = registry
    /\ UNCHANGED <<started, queue, stopCount, addAt, reapVars, bcastVars, stopVars, wPc,
                   queryVars, now, crashed, acceptVars, valVars, txVars>>

\* ------------------------------------------------------------ SpecAccept
\* The accept loop with its AddPeer goroutines, and callers of
\* ProcessPeerList, one operation on s.peers at a time. A started goroutine
\* is scheduled eventually.
NextAccept ==
    \/ AcceptFail
    \/ AcceptConn
    \/ AcceptedAddPeer
    \/ \E addrs \in AddrLists : ProcessPeerList(addrs)

SpecAccept == Init /\ [][NextAccept]_vars /\ WF_vars(AcceptedAddPeer)

Walked == SeqToSet(eachPeer(peers))

\* C1 (as claimed): a peer the reaper visits is removed if and only if its
\* disconnect flag is set or it is inbound and has been silent for more than
\* 5 minutes.
C1_ReapsIffDocumentedDead ==
    rPc = "passed" =>
        \A i \in 1..Len(visited) : (visited[i] \in removed) <=> DocDead(visited[i])

\* C2 (as claimed): after one pass with nothing else running, no peer that
\* satisfied the dead-peer test when the pass began is still in the registry.
C2_PassRemovesAllDead ==
    rPc = "passed" => \A p \in deadAtStart : p \notin Walked /\ p \notin Members

\* C6: after any sequence of AddPeer, ConnectToPeer and reaping passes,
\* OutboundPeers() and InboundPeers() share no peer, together hold exactly the
\* registry's peers, and each lists its peers in registry order whatever their
\* disconnect flag and liveness timestamp.
C6_QueriesPartitionRegistry ==
    qPc = "done" =>
        /\ SeqToSet(qOut) \cap SeqToSet(qIn) = {}
        /\ SeqToSet(qOut) \cup SeqToSet(qIn) = Members
        /\ qOut = SelectSeq(registry, LAMBDA p : ~inbound[p])
        /\ qIn = SelectSeq(registry, LAMBDA p : inbound[p])

\* A query answered after a reaping pass has removed a peer, with an outbound
\* peer whose disconnect flag is set and an inbound peer silent for more than
\* 5 minutes among the answers.
C6_Witness ==
    /\ qPc = "done"
    /\ reaped # {}
    /\ \E p \in SeqToSet(qOut) : disconnect[p] = 1
    /\ \E p \in SeqToSet(qIn) : now - lastPong[p] > LivenessTimeout

\* C7: an outbound peer with a clear disconnect flag is never removed by the
\* reaper, however old its liveness timestamp: once appended it is in the list
\* and not among the reaped peers.
C7_OutboundNeverTimedOut ==
    \A p \in PeerIds :
        (addPc[p] = "done" /\ ~inbound[p] /\ disconnect[p] = 0)
            => (p \in Walked /\ p \notin reaped)

\* A pass has visited an outbound peer with a clear flag whose silence exceeds
\* even the limit the code applies, and has removed an inbound peer for its
\* silence alone.
C7_Witness ==
    /\ rPc = "passed"
    /\ \E i \in 1..Len(visited) :
          LET p == visited[i] IN
          ~inbound[p] /\ disconnect[p] = 0 /\ (now - lastPong[p]) > ReapLimit
    /\ \E q \in removed : inbound[q] /\ disconnect[q] = 0


\* ------------------------------------------------------------ claims under SpecConc
\* The number of goroutines that are in the middle of an append, a removal or
\* a loop over s.peers.
Inside ==
    Cardinality({p \in PeerIds : Adding(p)})
    + (IF rPc \notin {"sleep", "passed"} THEN 1 ELSE 0)
    + (IF bPc \in {"visit", "advance"} THEN 1 ELSE 0)
    + (IF sPc \in {"visit", "advance"} THEN 1 ELSE 0)

\* C3 (as claimed): with a reaping pass and AddPeer calls running at once,
\* nothing panics, and once every operation has finished each peer that was
\* added and does not satisfy the dead-peer test is met by a traversal of the
\* list from the front.
C3_ReapWhileAddingIsSafe ==
    /\ ~crashed
    /\ ListBusy = 0 =>
          \A p \in PeerIds : (addPc[p] = "done" /\ ~DeadPeer(p)) => p \in Walked

\* C4 (as claimed): while an append or a removal is in progress, no other
\* goroutine is in the middle of an append, a removal or a loop over the list.
C4_MutualExclusion ==
    (Removing \/ \E p \in PeerIds : Adding(p)) => Inside <= 1

\* C5 (as claimed, leaving free what the claim leaves open to doubt): when
\* Broadcast returns, every peer that was registered before the call and still
\* is has exactly the one message more in its queue, whatever ran at the same
\* time; a peer that was being appended or that has been reaped meanwhile has
\* that message or none.
C5_BroadcastReachesRegistered ==
    bPc = "done" =>
        \A p \in PeerIds :
            /\ (p \in bTargets /\ p \in Members) => queue[p] = bBase[p] \o <<bMsg>>
            /\ queue[p] \in {bBase[p], bBase[p] \o <<bMsg>>}

\* C8 (as claimed): when Stop's loop is over, Peer.Stop has been called exactly
\* once on every peer that was in the registry when Stop was called, also with
\* a reaping pass running at the same time.
C8_StopStopsEveryPeerOnce ==
    sPc \in {"send", "txstop", "dbclose"} => \A p \in sTargets : sCalled[p] = 1


\* ------------------------------------------------------------ claims under SpecStop
\* The callers of WaitForShutdown that have gone on past <-s.shutdownChan.
Resumed == {w \in Waiters : wPc[w] = "resumed"}

\* C9 (as claimed): however many times Stop is called, the storage handle is
\* closed at most once and the shutdown signal is sent at most once.
C9_StopIsIdempotent ==
    dbCloses <= 1 /\ signalsSent <= 1

\* C10: no caller of WaitForShutdown goes on before Stop has sent on the
\* shutdown channel, every send lets exactly one waiting caller go on, and a
\* send that finds a caller waiting is eventually made and lets one go on.
C10_WaitersResumeOnSignal ==
    /\ [](Cardinality(Resumed) = signalsSent)
    /\ \A n \in 0..MaxStops :
          (sPc = "send" /\ signalsSent = n /\ \E w \in Waiters : wPc[w] = "recv")
              ~> (Cardinality(Resumed) > n)

\* Stop has sent once with two callers waiting: one has gone on, the other is
\* still at the channel.
C10_Witness ==
    /\ signalsSent = 1
    /\ Cardinality(Resumed) = 1
    /\ \E w \in Waiters : wPc[w] = "recv"


\* ------------------------------------------------------------ claims on appending
\* C11: a step of AddPeer or of ConnectToPeer puts exactly one new entry at the
\* back of the list and leaves the entries that were there, and their order,
\* as they were; AddPeer's entry is inbound and started, ConnectToPeer's is
\* outbound.
C11_AppendsOneAtBack ==
    [][ /\ (AddPeer \/ ConnectToPeer) =>
              /\ eachPeer(peers') = Append(eachPeer(peers), nPeers')
              /\ nPeers' \notin SeqToSet(eachPeer(peers))
              /\ peers'.len = peers.len + 1
              /\ \A q \in SeqToSet(eachPeer(peers)) :
                    /\ inbound'[q] = inbound[q]
                    /\ started'[q] = started[q]
                    /\ disconnect'[q] = disconnect[q]
        /\ AddPeer => (inbound'[nPeers'] /\ started'[nPeers'])
        /\ ConnectToPeer => ~inbound'[nPeers']
      ]_vars

\* Both operations have appended behind an entry that was already there: the
\* list holds an earlier peer, then an inbound started one and an outbound one.
C11_Witness ==
    /\ Len(eachPeer(peers)) = 3
    /\ \E i, j \in 2..3 :
          /\ inbound[eachPeer(peers)[i]] /\ started[eachPeer(peers)[i]]
          /\ ~inbound[eachPeer(peers)[j]]

\* C12: a step of ProcessPeerList(addrs), with nothing else running, leaves the
\* registry as it was with Len(addrs) outbound peers more behind it, one for
\* each address in the order of the list, whichever of the dials failed.
C12_ConnectsEveryAddress ==
    [][ \A addrs \in AddrLists : ProcessPeerList(addrs) =>
          /\ Len(registry') = Len(registry) + Len(addrs)
          /\ SubSeq(registry', 1, Len(registry)) = registry
          /\ eachPeer(peers') = registry'
          /\ \A i \in 1..Len(addrs) :
                LET p == registry'[Len(registry) + i] IN
                /\ p \notin Members
                /\ ~inbound'[p]
                /\ addrOf'[p] = addrs[i]
      ]_vars

\* ProcessPeerList has gone through a list of two addresses behind a peer that
\* was there already; the dial to the first address failed.
C12_Witness ==
    /\ Len(pplAddrs) = 2
    /\ pplBase # <<>>
    /\ Len(registry) = Len(pplBase) + 2
    /\ disconnect[registry[Len(pplBase) + 1]] = 1
    /\ disconnect[registry[Len(pplBase) + 2]] = 0
    /\ addrOf[registry[Len(pplBase) + 2]] = pplAddrs[2]

\* The accepted connections so far.
Accepted == {i \in 1..Len(accepts) : accepts[i] = "conn"}

\* The inbound peers AddPeer has put into the registry.
InboundCount == Len(SelectSeq(registry, LAMBDA p : inbound[p]))

\* C14: a failed accept adds no peer and leaves the registry and the waiting
\* connections as they were; the loop is still accepting afterwards; every
\* accepted connection has its AddPeer pending or done, and a pending one is
\* run.
C14_AcceptFailureIsLocal ==
    /\ [][AcceptFail => UNCHANGED <<peers, registry, peerVars, pending>>]_vars
    /\ [](AcceptLoopRuns /\ Cardinality(Accepted) = pending + InboundCount)
    /\ \A n \in 0..MaxPeers : (pending > 0 /\ InboundCount = n) ~> (InboundCount > n)

\* An accept failed, the next one gave a connection, and AddPeer has put that
\* connection's peer into the registry.
C14_Witness ==
    /\ Len(accepts) >= 2
    /\ accepts[1] = "err"
    /\ accepts[2] = "conn"
    /\ pending = 0
    /\ Len(registry) = 1
    /\ inbound[registry[1]]

\* ------------------------------------------------------------ claims on ownership
\* C13 (as claimed): when a reaping pass is over, Peer.Stop has been called on
\* every peer the pass took out of the list; and when Stop's loop over the
\* peers is over, no peer it has stopped is still in the list.
C13_ReleasedOnlyWithRemoval ==
    /\ rPc = "passed" => \A p \in removed : stopCount[p] > 0
    /\ sPc \in {"send", "txstop", "dbclose"} =>
          \A p \in PeerIds : stopCount[p] > 0 => p \notin Walked

\* ------------------------------------------------------------ claims under SpecValue
\* C15: on a Value holding a sequence of n children, Get(idx) is the child at
\* idx for 0 <= idx < n, a nil Value for idx >= n, and a panic for idx < 0,
\* the empty sequence included.
C15_GetByIndex ==
    (acc = "Get" /\ val.kind = "list") =>
        LET n == Len(val.l)
            idx == arg[1]
        IN  /\ (0 <= idx /\ idx < n) => res = val.l[idx + 1]
            /\ idx >= n => (res # Panic /\ IsNil(res))
            /\ idx < 0 => res = Panic

\* Get with a negative index on the empty sequence has panicked.
C15_Witness ==
    /\ acc = "Get"
    /\ val.kind = "list"
    /\ val.l = <<>>
    /\ arg[1] < 0
    /\ res = Panic

\* The kinds of Val an accessor coerces; any other kind is a type mismatch.
Coerces(name) ==
    CASE name = "Uint" -> {"uint8", "uint16", "uint32", "uint64", "int", "uint", "bytes"}
      [] name = "Byte" -> {"uint8"}
      [] name = "BigInt" -> {"uint8", "uint16", "uint32", "uint64", "int", "uint",
                             "bytes", "bigint"}
      [] name = "Str" -> {"bytes", "string"}
      [] name = "Bytes" -> {"bytes"}
      [] name \in {"Slice", "SliceFrom", "SliceTo", "SliceFromTo"} -> {"list"}
      [] name = "Len" -> {"list", "bytes"}
      [] name = "Type" -> {"nil", "bytes", "list", "uint8", "uint16", "uint32", "uint64",
                           "int", "uint", "bigint", "string"}

\* The documented zero value of an accessor.
ZeroValue(name) ==
    CASE name = "Uint" -> [kind |-> "uint64", n |-> 0]
      [] name = "Byte" -> [kind |-> "uint8", n |-> 0]
      [] name = "BigInt" -> [kind |-> "bigint", n |-> 0]
      [] name = "Str" -> [kind |-> "string", s |-> <<>>]
      [] name = "Bytes" -> [kind |-> "bytes", b |-> <<>>]
      [] name \in {"Slice", "SliceFrom", "SliceTo", "SliceFromTo"} -> [kind |-> "list", l |-> <<>>]
      [] name = "Len" -> [kind |-> "int", n |-> 0]

\* The bounds handed to a slicing accessor lie within the sequence it slices.
ArgsInRange ==
    \A i \in 1..Len(arg) : 0 <= arg[i] /\ arg[i] <= Len(Slice(val))
                             /\ (i > 1 => arg[i - 1] <= arg[i])

\* C16 (as claimed): whatever the Value holds, an accessor other than Get,
\* given bounds within the sequence, does not panic, and on a Val of a kind it
\* does not coerce it returns its zero value.
C16_AccessorsNeverPanic ==
    (acc \in Accessors \ {"Get"} /\ ArgsInRange) =>
        /\ res # Panic
        /\ val.kind \notin Coerces(acc) => res = ZeroValue(acc)

\* C17: Uint gives n for a uint8, uint16, uint32 or uint64 holding n and for a
\* byte string of 1 to 8 bytes that spells n in big-endian order.
C17_UintSameForEveryWidth ==
    acc = "Uint" =>
        /\ val.kind \in {"uint8", "uint16", "uint32", "uint64"} => res.n = val.n
        /\ (val.kind = "bytes" /\ Len(val.b) \in 1..WordBytes) => res.n = BigEndian(val.b)

\* Uint of a byte string of 3 bytes whose number does not fit one byte.
C17_Witness ==
    /\ acc = "Uint"
    /\ val.kind = "bytes"
    /\ Len(val.b) = 3
    /\ res.n >= ByteBase
    /\ res.n = BigEndian(val.b)

\* ------------------------------------------------------------ claims under SpecTx
\* The fields the encoding is made of.
EncodedFields(t) == <<t.sender, t.recipient, t.value, t.fee, t.data>>

\* C18: two transactions with the same sender, recipient, value, fee and
\* instructions have the same MarshalRlp output and the same address; every
\* transaction NewTransaction returns holds the compiled instructions, and its
\* address is the leading 19 bytes, in hexadecimal, of the digest of the
\* encoding of its final fields in the order placeholder, sender, recipient,
\* value, fee, instructions.
C18_EncodingAndAddressDeterministic ==
    /\ \A i, j \in 1..Len(tx) :
          EncodedFields(tx[i]) = EncodedFields(tx[j]) =>
              /\ MarshalRlp(tx[i]) = MarshalRlp(tx[j])
              /\ tx[i].addr = tx[j].addr
    /\ \A i \in 1..Len(tx) :
          /\ tx[i].data = CompileAll(txIn[i].data)
          /\ tx[i].addr = EncodeToString(SubSeq(Sum256(
                  RlpEncode(<<Uitoa(0), tx[i].sender, Uitoa(tx[i].recipient),
                              Uitoa(tx[i].value), Uitoa(tx[i].fee)>>, tx[i].data)),
                  1, AddrBytes))
          /\ Len(tx[i].addr) = 2 * AddrBytes

\* Two transactions built from the same arguments, with a full list of
\* instructions that compile: the two have the same, non-empty address.
C18_Witness ==
    /\ txPc = "two"
    /\ txIn[1] = txIn[2]
    /\ Len(tx[1].data) = MaxInstrs
    /\ \A k \in 1..MaxInstrs : tx[1].data[k] # <<>>
    /\ tx[1].addr = tx[2].addr
    /\ tx[1].addr # <<>>

\* ------------------------------------------------------------ claims under SpecReap
\* C19: with the reaper loop scheduled fairly and nothing running beside a
\* pass, a peer in the list whose disconnect flag is set is eventually out of
\* the list and out of the registry, and a set flag stays set.
C19_FlaggedPeerEventuallyReaped ==
    /\ [][\A p \in PeerIds : disconnect[p] = 1 => disconnect'[p] = 1]_vars
    /\ \A p \in PeerIds :
          (disconnect[p] = 1 /\ p \in Walked) ~> (p \notin Walked /\ p \notin Members)

\* Three peers were flagged at once: an earlier pass has removed one, this
\* pass has removed the flagged peer that stood behind it, and a third flagged
\* peer is still in the list for a later pass.
C19_Witness ==
    /\ rPc = "passed"
    /\ \E p \in removed : disconnect[p] = 1 /\ p \in deadAtStart
    /\ reaped \ removed # {}
    /\ \E q \in Walked : disconnect[q] = 1 /\ q \in deadAtStart

\* ------------------------------------------------------------ claims on Stop's order
\* C20: Stop stops the peers, then hands the signal to a caller of
\* WaitForShutdown, then stops the transaction pool, then closes the database:
\* the pool is stopped and the database closed only after a caller has
\* received the signal, and Stop gets past its send only in a step in which a
\* waiting caller receives.
C20_StopOrder ==
    /\ [](/\ sPc \in {"send", "txstop", "dbclose"} => \A p \in sTargets : sCalled[p] = 1
          /\ sPc \in {"idle", "visit", "advance", "send"} =>
                (signalsSent = txPoolStops /\ txPoolStops = dbCloses)
          /\ sPc = "txstop" => (signalsSent = txPoolStops + 1 /\ txPoolStops = dbCloses)
          /\ sPc = "dbclose" => (signalsSent = txPoolStops /\ txPoolStops = dbCloses + 1)
          /\ signalsSent = Cardinality(Resumed))
    /\ [][(sPc = "send" /\ sPc' # "send") =>
            \E w \in Waiters : wPc[w] = "recv" /\ wPc'[w] = "resumed"]_vars

\* Stop has run to its end with peers in the registry: they are stopped, one
\* caller has the signal, the pool is stopped and the database closed.
C20_Witness ==
    /\ sPc = "idle"
    /\ stopCalls = 1
    /\ sTargets # {}
    /\ \A p \in sTargets : stopCount[p] = 1
    /\ Cardinality(Resumed) = 1
    /\ txPoolStops = 1
    /\ dbCloses = 1

====
